---- MODULE Spec2Model ----
(***************************************************************************)
(* birdnet-api2ha: read-only query layer over the BirdNET-Go SQLite file   *)
(* (db.py), the Flask handlers that serve it (app.py) and the MQTT polling *)
(* bridge (mqtt_bridge.py).                                                *)
(*                                                                         *)
(* The database is owned by the upstream application.  The model keeps the *)
(* set of tables that exist, the rows of the one table the queries read    *)
(* (notes for the legacy layout, detections otherwise) and the state of    *)
(* the database file.  Rows are kept as runs: a run [lo, hi, ...] stands   *)
(* for the rows with the ids lo..hi that agree on every other column, so   *)
(* that a table of several hundred rows is a handful of runs.  Text is     *)
(* kept as tuples of character codes so that LIKE can be computed; NULL is *)
(* a value of its own.                                                     *)
(***************************************************************************)
EXTENDS Integers, Sequences, FiniteSets, TLC

\* ---------------------------------------------------------------- constants

\* db.py:100 and db.py:207, min(limit, 500); app.py:128, min(int(...), 500).
RowCap == 500
\* app.py:128 and app.py:130, the default and the fallback of ?limit=.
DefaultLimit == 100

\* ------------------------------------------------------------------- bounds

\* Rows already in the table when the process starts.
MaxHist == 1
\* Single-row inserts the upstream application makes while the bridge runs.
MaxSingles == 2
\* Bulk inserts (BurstSize rows in one transaction) while the bridge runs.
MaxBursts == 1
\* Row deletions the upstream application makes while the bridge runs.
MaxDeletes == 1
\* Changes of the database file's state while the bridge runs or a request
\* is being served.
MaxFileEvents == 1

\* A bulk insert is one row short of the cap, so that the cap is reached by a
\* bulk insert together with single inserts.
BurstSize == RowCap - 1

\* ------------------------------------------------------------------- values

NULL == <<0>>
\* An exception name, or None for no exception.
None == "None"
\* Optional arguments: a text argument that is absent or empty ("if
\* common_name:" takes both alike), and an absent after_id (after_id is None).
NoText == <<>>
NoId == <<>>
Some(n) == <<n>>

\* A date_start or date_end argument: absent or empty, a valid YYYY-MM-DD date
\* given by its day number since 1970-01-01, or text that is no date and that
\* sorts below ("low", such as "1999") or above ("high", such as "soon")
\* every stored date.
NoDate == <<"none", 0>>
Date(d) == <<"date", d>>
BadDates == {<<"low", 0>>, <<"high", 0>>}

TableNames == {"detections", "labels", "notes"}

\* os.path.isfile / Path.is_file are true for every state but "missing".
FileStates == {"ok", "missing", "locked", "corrupt", "denied"}

Max(a, b) == IF a >= b THEN a ELSE b
Min(a, b) == IF a <= b THEN a ELSE b

VARIABLES
    \* the database file, owned by the upstream application
    db_file,        \* one of FileStates
    tables,         \* the tables among TableNames that exist
    rows,           \* rows of the table the queries read, as runs
    next_id,        \* the id the next inserted row gets
    n_single, n_burst, n_delete, n_file,   \* upstream events so far
    \* config.yaml
    mqtt_enabled, database_path,
    \* the host
    tz_offset,      \* seconds the host's local time is ahead of UTC
    \* mqtt_bridge.py
    pc,             \* where run_bridge is
    client,         \* the paho client: "none", "running", "stopped"
    bridge_conn,    \* TRUE while the bridge's sqlite connection is open
    last_max_id,    \* mqtt_bridge._last_max_id
    current_max,    \* run_bridge's local current_max
    items,          \* run_bridge's local items
    published,      \* messages on the bus: id -> number of messages
    bridge_exc,     \* the exception that ended run_bridge, or None
    \* history of the bridge, for the properties
    first_max_id,   \* the watermark established at startup, -1 before
    cycle,          \* what the current or last poll cycle saw and did
    skipped,        \* ids above the watermark that a cycle finding more than
                    \* RowCap of them did not publish, so far
    \* app.py
    http_pc,        \* "off", "idle", or "open" between isfile and the query
    request,        \* the request being served, or the last one
    response        \* the response to the last request

bridge_vars == <<pc, client, bridge_conn, last_max_id, current_max, items,
                 published, bridge_exc, first_max_id, cycle, skipped>>
db_vars == <<db_file, tables, rows, next_id, n_single, n_burst, n_delete, n_file>>
cfg_vars == <<mqtt_enabled, database_path, tz_offset>>
http_vars == <<http_pc, request, response>>
vars == <<db_vars, cfg_vars, bridge_vars, http_vars>>

\* ------------------------------------------------------------------ db.py

\* Text: a tuple of character codes, 1..26 for a..z and 101..126 for A..Z.
Lower(c) == IF c > 100 THEN c - 100 ELSE c

\* SQLite's  name LIKE '%pat%' : pat occurs in name, ASCII case folded; NULL
\* LIKE anything is NULL, which a WHERE clause takes as false.
Like(name, pat) ==
    /\ name # NULL
    /\ \E k \in 0..(Len(name) - Len(pat)) :
          \A j \in 1..Len(pat) : Lower(name[k + j]) = Lower(pat[j])

\* str(r.get("id", ""))
Str(i) == <<"str", i>>

\* datetime.utcfromtimestamp(ts).strftime("%Y-%m-%dT%H:%M:%SZ"): the UTC day
\* and the second of that day.
IsoUtc(ts) == [day |-> ts \div 86400, sec |-> ts % 86400]

\* _db_uri and sqlite3.connect: the exception get_connection raises, or None.
get_connection(file) ==
    IF file = "missing" THEN "FileNotFoundError"
    ELSE IF file = "denied" THEN "OperationalError"
    ELSE None

\* What conn.execute raises on an open connection: a locked file gives
\* sqlite3.OperationalError, a file that is no database sqlite3.DatabaseError.
execute(file) ==
    IF file = "locked" THEN "OperationalError"
    ELSE IF file = "corrupt" THEN "DatabaseError"
    ELSE None

\* detect_schema with the notes table looked for first.
detect_schemaNotesFirst(tabs) ==
    IF "notes" \in tabs THEN "legacy"
    ELSE IF "detections" \in tabs /\ "labels" \in tabs THEN "v2"
    ELSE "unknown"

detect_schema(tabs) ==
    IF "detections" \in tabs /\ "labels" \in tabs THEN "v2"
    ELSE IF "notes" \in tabs THEN "legacy"
    ELSE "unknown"

\* The number of rows of a set of runs.
Size(r) == r.hi - r.lo + 1
RECURSIVE Count(_)
Count(rs) ==
    IF rs = {} THEN 0
    ELSE LET r == CHOOSE x \in rs : TRUE IN Size(r) + Count(rs \ {r})

\* The ids of a set of runs.
Ids(rs) == UNION {r.lo..r.hi : r \in rs}

\* COALESCE(MAX(id), 0)
MaxId(rs) ==
    IF rs = {} THEN 0
    ELSE CHOOSE m \in {r.hi : r \in rs} : \A r \in rs : r.hi <= m
MinId(rs) ==
    IF rs = {} THEN 0
    ELSE CHOOSE m \in {r.lo : r \in rs} : \A r \in rs : r.lo >= m

\* The rows with id > a, and the rows with id <= b.
After(rs, a) == {[r EXCEPT !.lo = Max(r.lo, a + 1)] : r \in {x \in rs : x.hi > a}}
Upto(rs, b) == {[r EXCEPT !.hi = Min(r.hi, b)] : r \in {x \in rs : x.lo <= b}}

\* get_max_detection_id: [exc, value].  The else branch reads detections
\* whatever the classification is.
get_max_detection_id(file, tabs, rs) ==
    LET table == IF detect_schema(tabs) = "legacy" THEN "notes" ELSE "detections"
    IN  IF execute(file) # None THEN [exc |-> execute(file), value |-> 0]
        ELSE IF table \notin tabs THEN [exc |-> "OperationalError", value |-> 0]
        ELSE [exc |-> None, value |-> MaxId(rs)]

\* The greatest a in lo..hi with at least m rows of ties after a.
RECURSIVE CutDesc(_, _, _, _)
CutDesc(ties, m, lo, hi) ==
    IF lo >= hi THEN lo
    ELSE LET mid == (lo + hi + 1) \div 2
         IN  IF Count(After(ties, mid)) >= m
             THEN CutDesc(ties, m, mid, hi)
             ELSE CutDesc(ties, m, lo, mid - 1)

\* The least b in lo..hi with at least m rows of ties up to b.
RECURSIVE CutAsc(_, _, _, _)
CutAsc(ties, m, lo, hi) ==
    IF lo >= hi THEN lo
    ELSE LET mid == (lo + hi) \div 2
         IN  IF Count(Upto(ties, mid)) >= m
             THEN CutAsc(ties, m, lo, mid)
             ELSE CutAsc(ties, m, mid + 1, hi)

\* The m rows of ties with the lowest ids ("asc") or the highest ids ("desc").
PickById(ties, m, tie) ==
    IF m <= 0 THEN {}
    ELSE IF m >= Count(ties) THEN ties
    ELSE IF tie = "desc"
    THEN After(ties, CutDesc(ties, m, MinId(ties) - 1, MaxId(ties)))
    ELSE Upto(ties, CutAsc(ties, m, MinId(ties), MaxId(ties)))

\* ORDER BY detected_at DESC LIMIT n  (legacy: ORDER BY date DESC, time DESC).
\* A negative LIMIT is no limit in SQLite.  SQL leaves the order of rows with
\* equal keys to the engine: tie says whether it yields them by ascending or
\* by descending rowid.
OrderLimit(q, n, tie) ==
    IF n < 0 \/ Count(q) <= n THEN q
    ELSE IF n = 0 THEN {}
    ELSE LET times == {r.detected_at : r \in q}
             newer(t) == {r \in q : r.detected_at > t}
             same(t) == {r \in q : r.detected_at = t}
             t0 == CHOOSE t \in times :
                      /\ Count(newer(t)) < n
                      /\ Count(newer(t)) + Count(same(t)) >= n
         IN  newer(t0) \cup PickById(same(t0), n - Count(newer(t0)), tie)

\* float(r.get("confidence") or 0): NULL gives 0.0, a number itself, text
\* that is no number raises ValueError.
ToFloat(c) == IF c[1] = "real" THEN c[2] ELSE 0
Converts(c) == c[1] # "text"

\* db.py:173-184: int(datetime.strptime(...).timestamp()) takes the date as
\* local time of the host; text that is no date leaves the bound None.
StartTs(a) == IF a[1] = "date" THEN Some(a[2] * 86400 - tz_offset) ELSE NoId
EndTs(a) == IF a[1] = "date" THEN Some(a[2] * 86400 + 86399 - tz_offset) ELSE NoId

\* "d.detected_at >= ?" and "d.detected_at <= ?", for the bounds that are set.
InRangeV2(r, date_start, date_end) ==
    /\ StartTs(date_start) # NoId => r.detected_at >= StartTs(date_start)[1]
    /\ EndTs(date_end) # NoId => r.detected_at <= EndTs(date_end)[1]

\* The date column of a notes row, as a day number.
RowDay(r) == r.detected_at \div 86400

\* "date >= ?" and "date <= ?" compare text with text, for every argument
\* that is not empty.
InRangeLegacy(r, date_start, date_end) ==
    /\ date_start[1] = "date" => RowDay(r) >= date_start[2]
    /\ date_start[1] # "high"
    /\ date_end[1] = "date" => RowDay(r) <= date_end[2]
    /\ date_end[1] # "low"

\* get_detections_legacy with "id >= ?" in place of "id > ?".
SelectLegacyFrom(rs, date_start, date_end, common_name, after_id) ==
    LET q == {r \in rs :
                /\ InRangeLegacy(r, date_start, date_end)
                /\ common_name # NoText =>
                      Like(r.common_name, common_name) \/ Like(r.scientific_name, common_name)}
    IN  IF after_id # NoId THEN After(q, after_id[1] - 1) ELSE q

\* The rows the SELECT of get_detections_legacy yields before LIMIT.
SelectLegacy(rs, date_start, date_end, common_name, after_id) ==
    LET q == {r \in rs :
                /\ InRangeLegacy(r, date_start, date_end)
                /\ common_name # NoText =>
                      Like(r.common_name, common_name) \/ Like(r.scientific_name, common_name)}
    IN  IF after_id # NoId THEN After(q, after_id[1]) ELSE q

\* The rows the SELECT of get_detections_v2 yields before LIMIT: the inner
\* join keeps the detections whose label_id has a labels row.
SelectV2(rs, date_start, date_end, common_name, after_id) ==
    LET q == {r \in rs :
                /\ r.has_label
                /\ InRangeV2(r, date_start, date_end)
                /\ common_name # NoText => Like(r.scientific_name, common_name)}
    IN  IF after_id # NoId THEN After(q, after_id[1]) ELSE q

Text(v) == IF v = NULL THEN <<>> ELSE v

\* The canonical records of a run of notes rows; ids holds str(id) of the
\* first and of the last of them.
\* (r.get("common_name") or "").strip() or (r.get("scientific_name") or "")
RecordLegacy(r) ==
    [ids |-> <<Str(r.lo), Str(r.hi)>>,
     timestamp |-> IsoUtc(r.detected_at),
     common_name |-> IF Text(r.common_name) # <<>> THEN Text(r.common_name)
                     ELSE Text(r.scientific_name),
     scientific_name |-> Text(r.scientific_name),
     confidence |-> ToFloat(r.confidence)]

\* The canonical records of a run of detections rows.
RecordV2(r) ==
    [ids |-> <<Str(r.lo), Str(r.hi)>>,
     timestamp |-> IsoUtc(r.detected_at),
     common_name |-> Text(r.scientific_name),
     scientific_name |-> Text(r.scientific_name),
     confidence |-> ToFloat(r.confidence)]

\* A cap of 100 rows in place of 500.
EffectiveLimitDefault(limit) == Min(limit, DefaultLimit)

\* min(limit, 500), the value bound to LIMIT ?.
EffectiveLimit(limit) == Min(limit, RowCap)

get_detections_legacy(rs, date_start, date_end, common_name, limit, after_id, tie) ==
    LET got == OrderLimit(SelectLegacy(rs, date_start, date_end, common_name, after_id),
                          EffectiveLimit(limit), tie)
    IN  IF \E r \in got : ~Converts(r.confidence)
        THEN [exc |-> "ValueError", items |-> {}]
        ELSE [exc |-> None, items |-> {RecordLegacy(r) : r \in got}]

\* get_detections_v2: [exc, items]; items is the list as a set of runs of
\* canonical records.
get_detections_v2(file, tabs, rs, date_start, date_end, common_name, limit, after_id, tie) ==
    IF execute(file) # None THEN [exc |-> execute(file), items |-> {}]
    ELSE IF detect_schema(tabs) = "legacy"
    THEN get_detections_legacy(rs, date_start, date_end, common_name, limit,
                               after_id, tie)
    ELSE IF detect_schema(tabs) # "v2" THEN [exc |-> "SchemaError", items |-> {}]
    ELSE LET got == OrderLimit(SelectV2(rs, date_start, date_end, common_name, after_id),
                               EffectiveLimit(limit), tie)
         IN  IF \E r \in got : ~Converts(r.confidence)
             THEN [exc |-> "ValueError", items |-> {}]
             ELSE [exc |-> None, items |-> {RecordV2(r) : r \in got}]

\* The byte of a character, for SQLite's BINARY collation.
Code(c) == IF c > 100 THEN c - 100 + 64 ELSE c + 96

RECURSIVE TextLeq(_, _)
TextLeq(a, b) ==
    IF a = <<>> THEN TRUE
    ELSE IF b = <<>> THEN FALSE
    ELSE IF Code(a[1]) # Code(b[1]) THEN Code(a[1]) < Code(b[1])
    ELSE TextLeq(Tail(a), Tail(b))

\* SQL MAX over a column of text: NULLs are left out, NULL for no value.
MaxText(vs) ==
    IF vs \ {NULL} = {} THEN NULL
    ELSE CHOOSE m \in vs \ {NULL} : \A v \in vs \ {NULL} : TextLeq(v, m)

\* "a or b or ''" over texts: the first that is neither NULL nor empty.
OrText(a, b) == IF Text(a) # <<>> THEN Text(a) ELSE Text(b)

\* ORDER BY count DESC over the records of the groups, as a list.  SQL leaves
\* the order of groups with equal counts to the engine: tie says whether it
\* yields them by ascending or by descending scientific_name.
RECURSIVE ByCountDesc(_, _)
ByCountDesc(groups, tie) ==
    IF groups = {} THEN <<>>
    ELSE LET top == {g \in groups : \A h \in groups : h.count <= g.count}
             first == CHOOSE g \in top : \A h \in top :
                         IF tie = "asc" THEN TextLeq(g.scientific_name, h.scientific_name)
                         ELSE TextLeq(h.scientific_name, g.scientific_name)
         IN  <<first>> \o ByCountDesc(groups \ {first}, tie)

\* get_stats_legacy: one record per scientific_name of the notes rows in the
\* date range (GROUP BY takes the rows with a NULL name as one group).
get_stats_legacy(rs, date_start, date_end, tie) ==
    LET q == {r \in rs : InRangeLegacy(r, date_start, date_end)}
    IN  ByCountDesc(
          {[scientific_name |-> Text(n),
            common_name |-> OrText(MaxText({r.common_name : r \in {x \in q : x.scientific_name = n}}), n),
            count |-> Count({x \in q : x.scientific_name = n})] :
              n \in {r.scientific_name : r \in q}}, tie)

\* get_stats_v2: [exc, items]; one record per scientific_name of the labels
\* that the detections in the date range join.
get_stats_v2(file, tabs, rs, date_start, date_end, tie) ==
    IF execute(file) # None THEN [exc |-> execute(file), items |-> <<>>]
    ELSE IF detect_schema(tabs) = "legacy"
    THEN [exc |-> None, items |-> get_stats_legacy(rs, date_start, date_end, tie)]
    ELSE IF detect_schema(tabs) # "v2" THEN [exc |-> "SchemaError", items |-> <<>>]
    ELSE LET q == {r \in rs : r.has_label /\ InRangeV2(r, date_start, date_end)}
         IN  [exc |-> None,
              items |-> ByCountDesc(
                          {[scientific_name |-> Text(n),
                            common_name |-> Text(n),
                            count |-> Count({x \in q : x.scientific_name = n})] :
                              n \in {r.scientific_name : r \in q}}, tie)]

TieOrders == {"asc", "desc"}

\* The number of records of a list, and the integer ids of its records.
Length(its) == Count({[lo |-> d.ids[1][2], hi |-> d.ids[2][2]] : d \in its})
ItemIds(its) == UNION {d.ids[1][2]..d.ids[2][2] : d \in its}

\* --------------------------------------------- the upstream application

\* 2023-11-14T22:13:20Z, and a minute before and after it.
MidTime == 19675 * 86400 + 80000
OldTime == MidTime - 60
NewTime == MidTime + 60

Pica == <<16, 9, 3, 1>>
Real(c) == <<"real", c>>

Run(a, b, t, lab) ==
    [lo |-> a, hi |-> b, detected_at |-> t, has_label |-> lab,
     scientific_name |-> Pica, common_name |-> NULL, confidence |-> Real(87)]

\* run_bridge has not ended.
Alive == pc \notin {"returned", "raised"}
\* run_bridge is in its loop and the file is a database the upstream
\* application writes to.  What it did to the table before the loop is the
\* table InitDb starts from.
Polling == pc \in {"sleep", "query"} /\ db_file = "ok"

\* While a poll cycle is between its first read and its end, it is noted
\* what the upstream application did to the table.
Running == pc = "query"
Note(what) ==
    cycle' = IF Running THEN [cycle EXCEPT ![what] = TRUE] ELSE cycle

\* INSERT of one row; ids are handed out in increasing order and not reused.
Insert ==
    /\ Polling
    /\ n_single < MaxSingles
    /\ \E t \in {OldTime, NewTime},
          lab \in IF "labels" \in tables THEN BOOLEAN ELSE {FALSE} :
          rows' = rows \cup {Run(next_id, next_id, t, lab)}
    /\ next_id' = next_id + 1
    /\ n_single' = n_single + 1
    /\ Note("inserted")
    /\ UNCHANGED <<db_file, tables, n_burst, n_delete, n_file, cfg_vars, http_vars>>
    /\ UNCHANGED <<pc, client, bridge_conn, last_max_id, current_max, items,
                   published, bridge_exc, first_max_id, skipped>>

\* One transaction that inserts BurstSize rows.
InsertBurst ==
    /\ Polling
    /\ n_burst < MaxBursts
    /\ rows' = rows \cup {Run(next_id, next_id + BurstSize - 1, MidTime,
                                "labels" \in tables)}
    /\ next_id' = next_id + BurstSize
    /\ n_burst' = n_burst + 1
    /\ Note("inserted")
    /\ UNCHANGED <<db_file, tables, n_single, n_delete, n_file, cfg_vars, http_vars>>
    /\ UNCHANGED <<pc, client, bridge_conn, last_max_id, current_max, items,
                   published, bridge_exc, first_max_id, skipped>>

\* DELETE of the newest row, or of every row.
Delete ==
    /\ Polling
    /\ n_delete < MaxDeletes
    /\ rows # {}
    /\ \/ rows' = Upto(rows, MaxId(rows) - 1)
       \/ rows' = {}
    /\ n_delete' = n_delete + 1
    /\ Note("deleted")
    /\ UNCHANGED <<db_file, tables, next_id, n_single, n_burst, n_file, cfg_vars, http_vars>>
    /\ UNCHANGED <<pc, client, bridge_conn, last_max_id, current_max, items,
                   published, bridge_exc, first_max_id, skipped>>

\* The file is removed, locked by a writer, or becomes a good database file
\* again.
FileEvent ==
    /\ Alive /\ pc # "start"
    /\ n_file < MaxFileEvents
    /\ \E f \in {"ok", "missing", "locked"} \ {db_file} : db_file' = f
    /\ n_file' = n_file + 1
    /\ UNCHANGED <<tables, rows, next_id, n_single, n_burst, n_delete, cfg_vars, http_vars>>
    /\ UNCHANGED bridge_vars

Upstream == Insert \/ InsertBurst \/ Delete \/ FileEvent

\* ---------------------------------------------------------- mqtt_bridge.py

NoCycle ==
    [done |-> FALSE, wm_before |-> 0, max_read |-> 0,
     pending |-> {}, listable |-> {}, batch |-> {}, wm_after |-> 0,
     db_max_end |-> 0, inserted |-> FALSE, deleted |-> FALSE]

\* The bus after one message for each record of the runs of ids: published
\* maps a run of ids to the number of times it was published.
Publish(pub, runs) ==
    [i \in DOMAIN pub \cup runs |->
        (IF i \in DOMAIN pub THEN pub[i] ELSE 0) + (IF i \in runs THEN 1 ELSE 0)]

\* The number of messages on the bus that carry id i.
RECURSIVE SumOver(_, _)
SumOver(pub, runs) ==
    IF runs = {} THEN 0
    ELSE LET r == CHOOSE x \in runs : TRUE IN pub[r] + SumOver(pub, runs \ {r})
Messages(i) ==
    SumOver(published, {r \in DOMAIN published : r[1][2] <= i /\ i <= r[2][2]})

\* An exception that leaves run_bridge with the connection left as it is.
RaiseLeak(exc, in_try) ==
    /\ pc' = "raised"
    /\ bridge_exc' = exc
    /\ UNCHANGED bridge_conn
    /\ client' = IF in_try THEN "stopped" ELSE client

\* An exception leaves run_bridge.  The with block closes the connection;
\* inside the try the finally clause stops and disconnects the client.
Raise(exc, in_try) ==
    /\ pc' = "raised"
    /\ bridge_exc' = exc
    /\ bridge_conn' = FALSE
    /\ client' = IF in_try THEN "stopped" ELSE client

\* The bridge started whether or not the database file exists.
ApplicableNoFileCheck == mqtt_enabled /\ database_path

\* mqtt_bridge.py:32-36: the feature is enabled, a path is configured and the
\* file exists.
Applicable == mqtt_enabled /\ database_path /\ db_file # "missing"

\* mqtt_bridge.py:30-36
Start ==
    /\ pc = "start"
    /\ pc' = IF Applicable THEN "connect" ELSE "returned"
    /\ UNCHANGED <<client, bridge_conn, last_max_id, current_max, items,
                   published, bridge_exc, first_max_id, cycle, skipped>>
    /\ UNCHANGED <<db_vars, cfg_vars, http_vars>>

\* mqtt_bridge.py:44-48; connect raises when the broker cannot be reached.
Connect ==
    /\ pc = "connect"
    /\ \/ /\ client' = "running"
          /\ pc' = "watermark"
          /\ UNCHANGED <<bridge_exc, bridge_conn>>
       \/ Raise("ConnectionRefusedError", FALSE)
    /\ UNCHANGED <<last_max_id, current_max, items, published,
                   first_max_id, cycle, skipped>>
    /\ UNCHANGED <<db_vars, cfg_vars, http_vars>>

\* mqtt_bridge.py:50-52, before the try statement.
EstablishWatermark ==
    /\ pc = "watermark"
    /\ LET opened == get_connection(db_file)
           m == get_max_detection_id(db_file, tables, rows)
       IN  IF opened # None
           THEN Raise(opened, FALSE) /\ UNCHANGED <<last_max_id, first_max_id>>
           ELSE IF m.exc # None
           THEN Raise(m.exc, FALSE) /\ UNCHANGED <<last_max_id, first_max_id>>
           ELSE /\ last_max_id' = m.value
                /\ first_max_id' = m.value
                /\ pc' = "sleep"
                /\ UNCHANGED <<client, bridge_conn, bridge_exc>>
    /\ UNCHANGED <<current_max, items, published, cycle, skipped>>
    /\ UNCHANGED <<db_vars, cfg_vars, http_vars>>

\* "if current_max == _last_max_id: continue"
NoNewDataEqual(cur, last) == cur = last

\* mqtt_bridge.py:59, "if current_max <= _last_max_id: continue"
NoNewData(cur, last) == cur <= last

\* "_last_max_id = current_max + 1"
NewWatermarkNext(cur, its) == cur + 1

\* The watermark set to the highest id the cycle published.
NewWatermarkPublished(cur, its) ==
    IF its = {} THEN cur
    ELSE CHOOSE m \in {d.ids[2][2] : d \in its} : \A d \in its : d.ids[2][2] <= m

\* mqtt_bridge.py:64, "_last_max_id = current_max"
NewWatermark(cur, its) == cur

\* mqtt_bridge.py:56-60: the sleep ends, the connection is opened and the
\* current max id is read; "continue" leaves the with block.
PollMax ==
    /\ pc = "sleep"
    /\ LET opened == get_connection(db_file)
           m == get_max_detection_id(db_file, tables, rows)
           began == [NoCycle EXCEPT !.wm_before = last_max_id,
                                    !.max_read = m.value]
       IN  IF opened # None
           THEN Raise(opened, TRUE) /\ UNCHANGED <<current_max, cycle>>
           ELSE IF m.exc # None
           THEN Raise(m.exc, TRUE) /\ UNCHANGED <<current_max, cycle>>
           ELSE /\ current_max' = m.value
                /\ UNCHANGED <<client, bridge_exc>>
                /\ IF NoNewData(m.value, last_max_id)
                   THEN /\ pc' = "sleep"
                        /\ bridge_conn' = FALSE
                        /\ cycle' = [began EXCEPT !.done = TRUE,
                                                  !.wm_after = last_max_id,
                                                  !.db_max_end = MaxId(rows)]
                   ELSE /\ pc' = "query"
                        /\ bridge_conn' = TRUE
                        /\ cycle' = began
    /\ UNCHANGED <<last_max_id, items, published, first_max_id, skipped>>
    /\ UNCHANGED <<db_vars, cfg_vars, http_vars>>

\* The rows get_detections_v2 can return for after_id = w, before LIMIT.
Listable(w) ==
    IF detect_schema(tables) = "legacy"
    THEN SelectLegacy(rows, NoDate, NoDate, NoText, Some(w))
    ELSE SelectV2(rows, NoDate, NoDate, NoText, Some(w))

\* mqtt_bridge.py:61-64: the listing, one message for each record of it, and
\* the new watermark.  client.publish raises on the first message or
\* publishes every message.
PollPublish ==
    /\ pc = "query"
    /\ \E tie \in TieOrders :
         LET got == get_detections_v2(db_file, tables, rows, NoDate, NoDate, NoText, RowCap,
                                      Some(last_max_id), tie)
             pending == Ids(After(rows, last_max_id))
         IN  IF got.exc # None
             THEN /\ Raise(got.exc, TRUE)
                  /\ UNCHANGED <<items, published, last_max_id, cycle, skipped>>
             ELSE /\ items' = got.items
                  /\ \/ /\ published' = Publish(published, {d.ids : d \in got.items})
                        /\ last_max_id' = NewWatermark(current_max, got.items)
                        /\ bridge_conn' = FALSE
                        /\ pc' = "sleep"
                        /\ cycle' = [cycle EXCEPT
                                       !.done = TRUE,
                                       !.pending = pending,
                                       !.listable = Ids(Listable(last_max_id)),
                                       !.batch = ItemIds(got.items),
                                       !.wm_after = NewWatermark(current_max, got.items),
                                       !.db_max_end = MaxId(rows)]
                        /\ skipped' = skipped \cup
                                        IF Cardinality(pending) > RowCap
                                        THEN pending \ ItemIds(got.items) ELSE {}
                        /\ UNCHANGED <<client, bridge_exc>>
                     \/ /\ got.items # {}
                        /\ Raise("ValueError", TRUE)
                        /\ UNCHANGED <<published, last_max_id, cycle, skipped>>
    /\ UNCHANGED <<current_max, first_max_id>>
    /\ UNCHANGED <<db_vars, cfg_vars, http_vars>>

Bridge == Start \/ Connect \/ EstablishWatermark \/ PollMax \/ PollPublish

\* ------------------------------------------------------------------ app.py

NoRequest ==
    [route |-> "none", limit_arg |-> <<"absent", 0>>, limit |-> 0,
     date_start |-> NoDate, date_end |-> NoDate]
NoResponse ==
    [status |-> 0, body |-> "none", exc |-> None, schema |-> "none", items |-> {}]

\* The ?limit= argument: absent, an integer literal, or other text.
LimitArgs ==
    {<<"absent", 0>>, <<"text", 0>>}
        \cup {<<"int", n>> : n \in {-1, 0, 1, RowCap + 1, 10000}}

\* The days the requests ask for: the day of the rows and the day after.
MidDay == MidTime \div 86400
Days == {MidDay, MidDay + 1}

\* The ?date_start= and ?date_end= arguments (no ?period=, so that
\* _parse_date_range hands them on as they are).
DateArgs == {NoDate} \cup {Date(d) : d \in Days} \cup BadDates

\* The arguments of the requests: a limit without dates or dates without a
\* limit for /api/detections, dates for /api/stats.
Requests ==
    {[route |-> "detections", limit_arg |-> arg, date_start |-> NoDate,
      date_end |-> NoDate] : arg \in LimitArgs}
    \cup {[route |-> r, limit_arg |-> <<"absent", 0>>, date_start |-> ds,
           date_end |-> de] : r \in {"detections", "stats"}, ds \in DateArgs,
                              de \in DateArgs}

\* app.py:127-130: min(int(request.args.get("limit", 100)), 500), and 100
\* when int() raises ValueError.
ParseLimit(arg) ==
    IF arg[1] = "absent" THEN Min(DefaultLimit, RowCap)
    ELSE IF arg[1] = "int" THEN Min(arg[2], RowCap)
    ELSE DefaultLimit

\* The handlers without their "except SchemaError" clause.
CaughtNoSchemaError == {"FileNotFoundError", "OperationalError"}

\* app.py:138-143 and app.py:166-171: the exceptions the handlers catch.
Caught == {"FileNotFoundError", "SchemaError", "OperationalError"}

\* The response of a handler whose query gave result: the list with status
\* 200, {"error": ...} with status 500 for a caught exception, and Flask's
\* own "Internal Server Error" page for any other.
Respond(result, schema) ==
    IF result.exc = None
    THEN [status |-> 200, body |-> "list", exc |-> None, schema |-> schema,
          items |-> result.items]
    ELSE [status |-> 500,
          body |-> IF result.exc \in Caught THEN "error" ELSE "page",
          exc |-> result.exc, schema |-> schema, items |-> {}]

\* An uncaught exception that ends the bridge thread also ends the process.
ListeningWhileBridge == http_pc = "idle" /\ pc # "raised"

\* main.py:21-24 and app.py:175-182: run_app serves in the main thread; the
\* bridge is a daemon thread of its own, so what ends run_bridge ends that
\* thread only.
Listening == http_pc = "idle"

\* app.py:114-130 and app.py:151-162: a request arrives; without a configured
\* path or without the file the handler answers [] at once, else it goes on
\* to open the database.
ReceiveFrom(reqs) ==
    /\ Listening
    /\ \E req \in reqs :
          request' = [route |-> req.route, limit_arg |-> req.limit_arg,
                      limit |-> IF req.route = "detections"
                                THEN ParseLimit(req.limit_arg) ELSE 0,
                      date_start |-> req.date_start, date_end |-> req.date_end]
    /\ IF ~database_path \/ db_file = "missing"
       THEN /\ response' = [status |-> 200, body |-> "list", exc |-> None,
                            schema |-> "none", items |-> {}]
            /\ http_pc' = "idle"
       ELSE /\ http_pc' = "open"
            /\ UNCHANGED response
    /\ UNCHANGED <<db_vars, cfg_vars, bridge_vars>>

Receive == ReceiveFrom(Requests)

\* app.py:133-148 and app.py:163-172: open the database, run the query,
\* answer.
Serve ==
    /\ http_pc = "open"
    /\ \E tie \in TieOrders :
          LET opened == get_connection(db_file)
              result ==
                  IF opened # None THEN [exc |-> opened, items |-> {}]
                  ELSE IF request.route = "detections"
                  THEN get_detections_v2(db_file, tables, rows, request.date_start,
                                         request.date_end, NoText,
                                         request.limit, NoId, tie)
                  ELSE get_stats_v2(db_file, tables, rows, request.date_start,
                                    request.date_end, tie)
              schema == IF opened = None /\ execute(db_file) = None
                        THEN detect_schema(tables) ELSE "none"
          IN  response' = Respond(result, schema)
    /\ http_pc' = "idle"
    /\ UNCHANGED request
    /\ UNCHANGED <<db_vars, cfg_vars, bridge_vars>>

Http == Receive \/ Serve

\* ------------------------------------------------------------ the bridge run

\* The table the queries read rows from.
ActiveTable(tabs) == IF detect_schema(tabs) = "legacy" THEN "notes" ELSE "detections"

InitDb ==
    /\ db_file \in FileStates
    /\ tables \in SUBSET TableNames
    /\ \E h \in IF ActiveTable(tables) \in tables THEN 0..MaxHist ELSE {0} :
          /\ rows = IF h = 0 THEN {}
                   ELSE {Run(1, h, OldTime, "labels" \in tables)}
          /\ next_id = h + 1
    /\ n_single = 0 /\ n_burst = 0 /\ n_delete = 0 /\ n_file = 0

InitBridge ==
    /\ InitDb
    /\ mqtt_enabled \in BOOLEAN
    /\ database_path \in BOOLEAN
    /\ tz_offset = 0
    /\ pc = "start"
    /\ client = "none"
    /\ bridge_conn = FALSE
    /\ last_max_id = 0
    /\ current_max = 0
    /\ items = {}
    /\ published = <<>>
    /\ bridge_exc = None
    /\ first_max_id = -1
    /\ cycle = NoCycle
    /\ skipped = {}
    /\ http_pc = "off"
    /\ request = NoRequest
    /\ response = NoResponse

NextBridge == Upstream \/ Bridge

SpecBridge == InitBridge /\ [][NextBridge]_vars

\* ------------------------------------------------------- the HTTP service

Magpie == <<113, 1, 7, 16, 9, 5>>

\* Hosts five hours behind UTC, on UTC and one hour ahead of it.
TzOffsets == {-18000, 0, 3600}

\* Half an hour before the end of the UTC day of MidTime.
LateTime == MidDay * 86400 + 84600

\* The tables the service is started on: empty, one row, one row more than
\* the cap, a row whose confidence is text that is no number, and two rows of
\* one species of which one has a common name and one a NULL confidence, and
\* a row together with one that has no label and a NULL scientific name.
HttpTables(tabs) ==
    LET lab == "labels" \in tabs
        one == Run(1, 1, OldTime, lab)
    IN  IF ActiveTable(tabs) \notin tabs THEN {{}}
        ELSE {{},
              {one},
              {Run(1, RowCap + 1, MidTime, lab)},
              {[one EXCEPT !.confidence = <<"text", 0>>]},
              {[one EXCEPT !.common_name = Magpie],
               [Run(2, 2, LateTime, lab) EXCEPT !.confidence = <<"null", 0>>]},
              {one, [Run(2, 2, NewTime, FALSE) EXCEPT !.scientific_name = NULL]}}

InitHttp ==
    /\ db_file \in FileStates
    /\ tables \in SUBSET TableNames
    /\ rows \in HttpTables(tables)
    /\ next_id = MaxId(rows) + 1
    /\ n_single = 0 /\ n_burst = 0 /\ n_delete = 0 /\ n_file = 0
    /\ mqtt_enabled = FALSE
    /\ database_path \in BOOLEAN
    /\ tz_offset \in TzOffsets
    /\ pc = "off"
    /\ client = "none"
    /\ bridge_conn = FALSE
    /\ last_max_id = 0
    /\ current_max = 0
    /\ items = {}
    /\ published = <<>>
    /\ bridge_exc = None
    /\ first_max_id = -1
    /\ cycle = NoCycle
    /\ skipped = {}
    /\ http_pc = "idle"
    /\ request = NoRequest
    /\ response = NoResponse

NextHttp == Http \/ FileEvent

SpecHttp == InitHttp /\ [][NextHttp]_vars

\* ------------------------------------------- the service started with --mqtt

\* The requests of the service run: the newest detections and the statistics.
ServiceRequests ==
    {[route |-> r, limit_arg |-> <<"absent", 0>>, date_start |-> NoDate,
      date_end |-> NoDate] : r \in {"detections", "stats"}}

ReceiveService == ReceiveFrom(ServiceRequests)

\* main.py:19-24: the bridge thread is started, then run_app serves.
InitService ==
    /\ InitDb
    /\ mqtt_enabled \in BOOLEAN
    /\ database_path \in BOOLEAN
    /\ tz_offset = 0
    /\ pc = "start"
    /\ client = "none"
    /\ bridge_conn = FALSE
    /\ last_max_id = 0
    /\ current_max = 0
    /\ items = {}
    /\ published = <<>>
    /\ bridge_exc = None
    /\ first_max_id = -1
    /\ cycle = NoCycle
    /\ skipped = {}
    /\ http_pc = "idle"
    /\ request = NoRequest
    /\ response = NoResponse

NextService == Bridge \/ Insert \/ FileEvent \/ ReceiveService \/ Serve

SpecService == InitService /\ [][NextService]_vars

\* ------------------------------------------------ properties of the bridge

\* The integer ids a published run covers.
First(r) == r[1][2]
Last(r) == r[2][2]

\* C1: no detection id is published to the bus more than once.
C1_NoDuplicate ==
    \A r \in DOMAIN published :
        /\ published[r] <= 1
        /\ \A q \in DOMAIN published :
              q # r => (Last(r) < First(q) \/ Last(q) < First(r))

\* The ids lo..hi are all among the ids of the runs of cover.
InCover(cover, x) == \E c \in cover : c[1] <= x /\ x <= c[2]
Covers(cover, lo, hi) ==
    \/ lo > hi
    \/ /\ InCover(cover, lo)
       /\ \A c \in cover : (lo <= c[2] /\ c[2] < hi) => InCover(cover, c[2] + 1)

PublishedRuns == {<<First(r), Last(r)>> : r \in DOMAIN published}
SkippedRuns == {<<i, i>> : i \in skipped}

\* The rows of the table the watermark has passed since it was established.
Passed == Upto(After(rows, first_max_id), last_max_id)

\* C2 as stated: no row is dropped.  A row at or below the watermark is
\* never listed again, so every row that is in the table and that the
\* watermark has passed since startup must have been published.
C2_NeverDrops ==
    first_max_id >= 0 =>
        \A r \in Passed : Covers(PublishedRuns, r.lo, r.hi)

\* The rows a listing can return: every notes row, and the detections rows
\* whose label exists.
CanList(rs) ==
    IF detect_schema(tables) = "legacy" THEN rs ELSE {r \in rs : r.has_label}

\* C2, amended: every poll cycle reads the highest id of the table and, when it
\* completes, leaves the watermark at or above the id it read; and every row
\* inserted after the watermark was established that is in the table, that
\* the listing can return and that the watermark has passed has been
\* published, unless it was above the watermark in a cycle that found more
\* than 500 rows there and whose listing left it out.
C2_NeverDropsListable ==
    [][/\ (pc = "sleep" /\ pc' # "raised" /\ UNCHANGED db_vars) =>
             (current_max' = MaxId(rows) /\ cycle'.max_read = MaxId(rows))
       /\ cycle'.done => last_max_id' >= cycle'.max_read
       /\ first_max_id' >= 0 =>
             \A r \in CanList(Passed)' :
                 Covers(PublishedRuns' \cup SkippedRuns', r.lo, r.hi)]_vars

C2_Witness ==
    /\ first_max_id >= 0
    /\ pc = "sleep"
    /\ \E r \in CanList(Passed) : Covers(PublishedRuns, r.lo, r.hi)

\* C3 as stated: a cycle that finds more than 500 rows above the watermark
\* publishes exactly 500 of them and sets the watermark to the max id it read
\* at its start, and the rows it left unpublished are never published later.
C3_Burst(c) ==
    (c.done /\ Cardinality(c.pending) > RowCap) =>
        /\ Cardinality(c.batch) = RowCap
        /\ c.batch \subseteq c.pending
        /\ c.wm_after = c.max_read
C3_BurstSkips ==
    [][/\ C3_Burst(cycle')
       /\ \A i \in skipped : Messages(i)' = Messages(i)]_vars

\* C3, amended: a cycle whose listing finds more than 500 rows it can return
\* publishes exactly 500 of them and sets the watermark to the max id it read
\* at its start, and a row it left unpublished whose id is at most the
\* watermark is never published later.
C3_Truncated(c) ==
    (c.done /\ Cardinality(c.listable) > RowCap) =>
        /\ Cardinality(c.batch) = RowCap
        /\ c.batch \subseteq c.listable
        /\ c.wm_after = c.max_read
C3_BurstSkipsBelowWatermark ==
    [][/\ C3_Truncated(cycle')
       /\ \A i \in skipped : i <= last_max_id => Messages(i)' = Messages(i)]_vars

C3_Witness ==
    /\ cycle.done
    /\ Cardinality(cycle.listable) > RowCap
    /\ Cardinality(cycle.batch) = RowCap
    /\ \E i \in skipped : i <= last_max_id

\* C4 as stated: a cycle that finds at most 500 rows above the watermark, with
\* no insert while it runs, publishes one message for each of them and no
\* other, and ends with the watermark at the highest id of the table; when the
\* max id read is at most the watermark it publishes nothing and leaves the
\* watermark as it was.
C4_QuietCycle ==
    (cycle.done /\ Cardinality(cycle.pending) <= RowCap /\ ~cycle.inserted) =>
        /\ cycle.batch = cycle.pending
        /\ cycle.wm_after = cycle.db_max_end
        /\ cycle.max_read <= cycle.wm_before =>
              (cycle.batch = {} /\ cycle.wm_after = cycle.wm_before)

\* C4, amended: with no insert and no delete while the cycle runs, it
\* publishes one message for each such row its listing can return and no
\* other; when the max id read exceeds the watermark it ends with the
\* watermark at the highest id of the table, and otherwise it publishes
\* nothing and leaves the watermark as it was.
C4_QuietCycleListable ==
    (/\ cycle.done /\ Cardinality(cycle.pending) <= RowCap
     /\ ~cycle.inserted /\ ~cycle.deleted) =>
        /\ cycle.batch = cycle.listable
        /\ cycle.listable \subseteq cycle.pending
        /\ cycle.max_read > cycle.wm_before =>
              (cycle.wm_after = cycle.db_max_end /\ cycle.wm_after = cycle.max_read)
        /\ cycle.max_read <= cycle.wm_before =>
              (cycle.batch = {} /\ cycle.wm_after = cycle.wm_before)

C4_Witness ==
    /\ cycle.done /\ ~cycle.inserted /\ ~cycle.deleted
    /\ cycle.batch # {}
    /\ cycle.batch = cycle.pending
    /\ Cardinality(cycle.pending) <= RowCap
    /\ cycle.wm_after = cycle.db_max_end

\* C5: once established the watermark never decreases, and it changes only in
\* the step that ends a poll cycle after its publish loop.
C5_Monotonic ==
    [][first_max_id >= 0 =>
          /\ last_max_id' >= last_max_id
          /\ last_max_id' # last_max_id =>
                (pc = "query" /\ pc' = "sleep" /\ cycle'.done
                 /\ published' = Publish(published, {d.ids : d \in items'}))]_vars

C5_Witness ==
    /\ first_max_id >= 0
    /\ last_max_id > first_max_id
    /\ MaxId(rows) < last_max_id

\* C6: the watermark is set once, before the first poll cycle, to the max id
\* of the table at that moment (0 for an empty table), and no message is
\* published for a row with an id at or below that first watermark.
C6_NoReplay ==
    [][/\ first_max_id' # first_max_id =>
             (/\ first_max_id = -1 /\ pc = "watermark" /\ pc' = "sleep"
              /\ first_max_id' = MaxId(rows)
              /\ rows = {} => first_max_id' = 0
              /\ last_max_id' = first_max_id')
       /\ pc' \in {"sleep", "query"} => first_max_id' >= 0
       /\ \A r \in DOMAIN published' : First(r) > first_max_id' /\ first_max_id' >= 0]_vars

C6_Witness ==
    /\ first_max_id >= 1
    /\ \E r \in rows : r.lo <= first_max_id
    /\ published # <<>>

\* ------------------------------------------- properties of the HTTP service

\* A handler answers: the step from the open database to the response.
Answers == http_pc = "open" /\ http_pc' = "idle"

\* C7: whatever integer ?limit= is asked for, the list that GET
\* /api/detections got from get_detections_v2 and answers with has at most
\* 500 records, for both layouts; a limit that is no number is taken as 100.
C7_LimitCapped ==
    /\ (request.route = "detections" /\ response.body = "list") =>
          Length(response.items) <= RowCap
    /\ request.limit_arg[1] = "text" => request.limit = DefaultLimit

\* C8: on a database classified unknown both query operations raise
\* SchemaError and return nothing, and the handler answers status 500 with an
\* {error} body.
C8_UnknownSchemaFails ==
    [][(/\ Answers
        /\ get_connection(db_file) = None /\ execute(db_file) = None
        /\ detect_schema(tables) = "unknown") =>
           /\ \A arg \in LimitArgs : \A tie \in TieOrders :
                 get_detections_v2(db_file, tables, rows, NoDate, NoDate, NoText,
                                   ParseLimit(arg),
                                   NoId, tie)
                     = [exc |-> "SchemaError", items |-> {}]
           /\ \A tie \in TieOrders :
                 get_stats_v2(db_file, tables, rows, NoDate, NoDate, tie)
                     = [exc |-> "SchemaError", items |-> <<>>]
           /\ response' = [status |-> 500, body |-> "error", exc |-> "SchemaError",
                           schema |-> "unknown", items |-> {}]]_vars

C8_Witness ==
    /\ http_pc = "idle"
    /\ request.route = "stats"
    /\ tables = {"detections"}
    /\ rows # {}
    /\ response.exc = "SchemaError" /\ response.status = 500 /\ response.body = "error"

\* C9: the classification depends on nothing but which of detections, labels
\* and notes exist: v2 exactly when detections and labels both exist, legacy
\* exactly when they do not both exist and notes does, unknown otherwise; a
\* second classification of the same tables gives the same answer, and
\* classifying changes neither the tables nor the rows.
Modern(tabs) == "detections" \in tabs /\ "labels" \in tabs
Classified(tabs, schema) ==
    /\ schema = "v2" <=> Modern(tabs)
    /\ schema = "legacy" <=> (~Modern(tabs) /\ "notes" \in tabs)
    /\ schema = "unknown" <=> (~Modern(tabs) /\ "notes" \notin tabs)
C9_Classification ==
    [][/\ \A tabs \in SUBSET TableNames : Classified(tabs, detect_schema(tabs))
       /\ (Answers /\ response'.schema # "none") =>
             /\ Classified(tables, response'.schema)
             /\ response.schema # "none" => response'.schema = response.schema
             /\ tables' = tables /\ rows' = rows]_vars

C9_Witness ==
    /\ response.schema = "legacy"
    /\ tables = {"detections", "notes"}
    /\ http_pc = "idle"

\* C10: every response with status 500 has a JSON {error} body.
C10_StructuredErrors ==
    response.status = 500 => response.body = "error"

\* C11: a handler that ends a request while no database path is configured
\* or while the database file does not exist answers 200 with an empty list,
\* also when the file went away after the handler's isfile check.
C11_MissingIsEmpty ==
    [][(/\ http_pc' = "idle" /\ http_pc # "off"
        /\ UNCHANGED db_file
        /\ (~database_path \/ db_file = "missing")) =>
           (response'.status = 200 /\ response'.body = "list"
            /\ response'.items = {})]_vars

\* A date argument with text that is no date taken as absent.
Lenient(a) == IF a \in BadDates THEN NoDate ELSE a

\* C12: a date_start or date_end that is no valid date is no error and gives
\* the answer that the same request without that bound gives, for both
\* layouts and for the listing and the statistics.
C12_MalformedDateIgnored ==
    [][(Answers /\ get_connection(db_file) = None) =>
          \E tie \in TieOrders :
              response' =
                  Respond(IF request.route = "detections"
                          THEN get_detections_v2(db_file, tables, rows,
                                                 Lenient(request.date_start),
                                                 Lenient(request.date_end), NoText,
                                                 request.limit, NoId, tie)
                          ELSE get_stats_v2(db_file, tables, rows,
                                            Lenient(request.date_start),
                                            Lenient(request.date_end), tie),
                          response'.schema)]_vars

\* C13: for valid date_start <= date_end, every record of a listing has a
\* timestamp within [date_start 00:00:00, date_end 23:59:59], that is, on a
\* day from date_start to date_end, for both layouts and every time zone
\* offset of the host.
C13_WithinDateRange ==
    (/\ http_pc = "idle" /\ request.route = "detections"
     /\ response.body = "list" /\ response.schema # "none"
     /\ request.date_start[1] = "date" /\ request.date_end[1] = "date"
     /\ request.date_start[2] <= request.date_end[2]) =>
        \A d \in response.items :
            /\ d.timestamp.day >= request.date_start[2]
            /\ d.timestamp.day <= request.date_end[2]

RECURSIVE SumCounts(_)
SumCounts(its) == IF its = <<>> THEN 0 ELSE Head(its).count + SumCounts(Tail(its))

\* The rows of the table in the date range of the request.
InRequestedRange ==
    {r \in rows :
        IF detect_schema(tables) = "legacy"
        THEN InRangeLegacy(r, request.date_start, request.date_end)
        ELSE InRangeV2(r, request.date_start, request.date_end)}

\* C14: the statistics have one record per species, in an order of
\* non-increasing count, and their counts add up to the number of rows of
\* the table in the requested date range, for both layouts and any table
\* contents.
C14_StatsTotals ==
    (/\ http_pc = "idle" /\ request.route = "stats"
     /\ response.body = "list" /\ response.schema # "none") =>
        LET its == response.items
        IN  /\ \A i, j \in 1..Len(its) :
                  i # j => its[i].scientific_name # its[j].scientific_name
            /\ \A i \in 1..(Len(its) - 1) : its[i].count >= its[i + 1].count
            /\ SumCounts(its) = Count(InRequestedRange)

\* ------------------------------------- further properties of the bridge

\* C15: the bridge's database connection is open only inside a with block:
\* it is closed whenever the bridge sleeps between poll cycles, after the
\* early continue, and after an exception of the query layer.
C15_ConnectionsScoped ==
    /\ bridge_conn => pc = "query"
    /\ pc \in {"sleep", "raised", "returned"} => ~bridge_conn

C15_Witness ==
    /\ pc = "raised"
    /\ bridge_exc = "SchemaError"
    /\ current_max > last_max_id
    /\ ~bridge_conn

StorageErrors == {"OperationalError", "DatabaseError", "FileNotFoundError"}

\* C16: a storage failure inside a poll cycle does not end the bridge: the
\* loop stays alive, publishes nothing, keeps the watermark and goes on to the
\* next cycle.
C16_StorageFailureEndsCycleOnly ==
    [][(pc \in {"sleep", "query"} /\ bridge_exc' \in StorageErrors) =>
          (pc' = "sleep" /\ UNCHANGED <<last_max_id, published>>)]_vars

\* C17: when the tables have neither layout as the bridge establishes its
\* watermark, the bridge ends there with a SchemaError, and it never enters a
\* poll cycle and never publishes.
C17_UnknownSchemaEndsInit ==
    [][detect_schema(tables) = "unknown" =>
          /\ (pc = "watermark" /\ pc' # "watermark" /\ db_file = "ok") =>
                (pc' = "raised" /\ bridge_exc' = "SchemaError")
          /\ pc' \notin {"sleep", "query"}
          /\ published' = <<>>]_vars

\* C18: with the feature disabled, no database path, or no database file at
\* startup, run_bridge returns at once, having neither connected to the bus
\* nor opened the database nor published, and it does nothing afterwards.
C18_NoOpWhenNotApplicable ==
    [][/\ (pc = "start" /\ (~mqtt_enabled \/ ~database_path \/ db_file = "missing")) =>
             pc' = "returned"
       /\ pc' = "returned" =>
             /\ client' = "none" /\ ~bridge_conn' /\ published' = <<>>
             /\ first_max_id' = -1 /\ bridge_exc' = None
       /\ pc = "returned" => UNCHANGED bridge_vars]_vars

C18_Witness ==
    /\ pc = "returned"
    /\ mqtt_enabled /\ database_path
    /\ db_file = "missing"
    /\ client = "none"

\* C20: whenever run_bridge has stopped after the client connected and
\* started its loop, the loop has been stopped and the client disconnected.
C20_ClientCleanedUp ==
    pc \in {"returned", "raised"} => client # "running"

\* ---------------------------------------------------------------- C19

\* The bridge thread has ended: run_bridge returned or raised.
BridgeEnded == pc \in {"returned", "raised"}

\* C19: the bridge is isolated from the HTTP service.  Once the bridge
\* thread has ended, for whatever reason, the service still accepts a request
\* when it is idle and still answers the request it has accepted; every step
\* that changes the watermark is a step of run_bridge (the establishment or
\* the end of a poll cycle) and no step of a handler; no step changes both a
\* variable of the bridge and a variable of the handlers; and the answer of
\* a handler is computed from the request and the database alone.
C19_BridgeIsolated ==
    /\ [](BridgeEnded =>
            /\ http_pc \in {"idle", "open"}
            /\ http_pc = "idle" => ENABLED ReceiveService
            /\ http_pc = "open" => ENABLED Serve)
    /\ [][/\ last_max_id' # last_max_id =>
               /\ pc \in {"watermark", "query"}
               /\ UNCHANGED http_vars
          /\ ~UNCHANGED bridge_vars => UNCHANGED http_vars
          /\ Answers =>
               \E tie \in TieOrders :
                  response' =
                     Respond(IF get_connection(db_file) # None
                             THEN [exc |-> get_connection(db_file), items |-> {}]
                             ELSE IF request.route = "detections"
                             THEN get_detections_v2(db_file, tables, rows, NoDate,
                                                    NoDate, NoText, request.limit,
                                                    NoId, tie)
                             ELSE get_stats_v2(db_file, tables, rows, NoDate,
                                               NoDate, tie),
                             response'.schema)]_vars

\* The bridge thread was ended by an exception and the service has answered
\* a request with a list of rows.
C19_Witness ==
    /\ pc = "raised"
    /\ http_pc = "idle"
    /\ response.status = 200
    /\ response.schema # "none"
    /\ response.items # {}

====
